---- MODULE Spec2Model ----
(***************************************************************************)
(* Model of hscontrol/mapper/mapper.go: the Mapper that builds, serializes  *)
(* and frames map responses and keepalive responses.                        *)
(*                                                                          *)
(* Each worker is one goroutine of the serving layer calling                *)
(* CreateMapResponse or CreateKeepAliveResponse on the one shared Mapper.   *)
(* A call is split into steps where it calls a collaborator, touches the    *)
(* shared DNS template or the shared encoder pool; everything local between *)
(* two such points belongs to the step before it.                           *)
(*                                                                          *)
(* Strings are TLA+ strings, byte slices are sequences of 0..255, slices of *)
(* machines are sets of node ids (mapper.go never depends on their order),  *)
(* a nil slice is <<>>.  The Mapper is constructed with a non-nil DNS       *)
(* template whose Routes map is non-nil.                                    *)
(*                                                                          *)
(* Without MagicDNS the builds read and write the template's resolver       *)
(* addresses with no synchronisation: each read and each write is a step of *)
(* its own, so that a write may land between another build's read and      *)
(* write.                                                                   *)
(***************************************************************************)
EXTENDS Integers, Sequences, FiniteSets, TLC

\* ------------------------------------------------------------- bounds
NumNodes == 3
NumWorkers == 2
MaxCalls == 2

\* ------------------------------------------------ program constants
nextDNSDoHPrefix == "https://dns.nextdns.io"
reservedResponseHeaderSize == 4
ZstdCompression == "zstd"

\* ------------------------------------------------------ the database
Nodes == 1..NumNodes
Workers == 1..NumWorkers

UserNames == <<"alice", "bob", "alice", "carol">>
UserIDs == [alice |-> 1, bob |-> 2, carol |-> 3]
Hostnames == <<"laptop", "my phone", "desk&top", "pi">>
OSNames == <<"linux", "iOS", "windows", "linux">>
IPLists == << <<"100.64.0.5">>, <<>>, <<"100.64.0.7", "fd7a::7">>, <<"100.64.0.9">> >>
MachineKeys ==
  <<"mkey:0a1b2c3d4e5f60718293a4b5c6d7e8f90a1b2c3d4e5f60718293a4b5c6d7e8f9",
    "not-a-key",
    "ffeeddccbbaa99887766554433221100ffeeddccbbaa99887766554433221100",
    "mkey:1234567890abcdef1234567890abcdef1234567890abcdef1234567890abcdef">>

Slot(n) == ((n - 1) % 4) + 1

\* types.User: ID and Name (names are unique in the users table)
User(name) == [ID |-> UserIDs[name], Name |-> name]

\* types.Machine, the fields mapper.go reads
Machine(n) ==
  [ID |-> n,
   User |-> User(UserNames[Slot(n)]),
   Hostname |-> Hostnames[Slot(n)],
   OS |-> OSNames[Slot(n)],
   IPAddresses |-> IPLists[Slot(n)],
   MachineKey |-> MachineKeys[Slot(n)]]

\* ------------------------------------------------------ string helpers
HasPrefix(s, p) == Len(s) >= Len(p) /\ SubSeq(s, 1, Len(p)) = p

\* number of (possibly overlapping) occurrences of sub in s
Occurrences(s, sub) ==
  Cardinality({i \in 1..(Len(s) - Len(sub) + 1) : SubSeq(s, i, i + Len(sub) - 1) = sub})

Contains(s, sub) == Occurrences(s, sub) > 0

\* url.QueryEscape on the characters the host names, OS names and addresses use
EscapeChar(c) ==
  CASE c = " " -> "+"
    [] c = "&" -> "%26"
    [] c = ":" -> "%3A"
    [] c = "?" -> "%3F"
    [] c = "=" -> "%3D"
    [] OTHER -> c

RECURSIVE QueryEscape(_)
QueryEscape(s) ==
  IF s = "" THEN "" ELSE EscapeChar(SubSeq(s, 1, 1)) \o QueryEscape(SubSeq(s, 2, Len(s)))

\* fmt.Sprintf("%s.%s", name, baseDomain)
DottedName(name, domain) == name \o "." \o domain

\* ------------------------------------------------ collaborators
\* util.MachinePublicKeyEnsurePrefix
MachinePublicKeyEnsurePrefix(k) == IF HasPrefix(k, "mkey:") THEN k ELSE "mkey:" \o k

HexDigits == {"0", "1", "2", "3", "4", "5", "6", "7", "8", "9", "a", "b", "c", "d", "e", "f"}

\* key.MachinePublic.UnmarshalText: "mkey:" followed by the hex of 32 bytes
UnmarshalTextOK(text) ==
  /\ HasPrefix(text, "mkey:")
  /\ Len(text) = 5 + 2 * 32
  /\ \A i \in 6..Len(text) : SubSeq(text, i, i) \in HexDigits

\* db.ListPeers: every other registered machine
ListPeers(m) == Nodes \ {m}

\* the rule sets policy.GenerateFilterRules may compile (none, any single rule,
\* every rule): a rule lets src reach dst
RulePairs == {pr \in Nodes \X Nodes : pr[1] # pr[2]}
RuleSets == {{}} \cup {{pr} : pr \in RulePairs} \cup {RulePairs}

\* Machine.CanAccess, either way round
Permitted(rules, m, p) == <<m, p>> \in rules \/ <<p, m>> \in rules

\* policy.FilterMachinesByACL
FilterMachinesByACL(m, peers, rules) == {p \in peers : Permitted(rules, m, p)}

\* db.TailNode: the tailcfg.Node of a machine
TailNode(n) == [ID |-> n, Name |-> Machine(n).Hostname, User |-> Machine(n).User.ID]

\* db.TailNodes
TailNodes(peers) == {TailNode(p) : p \in peers}

\* ------------------------------------------------ fullMapResponse, pure parts
\* faulty variant: the filter is never applied
FilteredPeersUnfiltered(m, peers, rules) == peers

\* fullMapResponse 108-110: the peer set every later step works on
FilteredPeers(m, peers, rules) ==
  IF Cardinality(rules) > 0 THEN FilterMachinesByACL(m, peers, rules) ELSE peers

\* faulty variant: the requesting machine's own user is not seeded into userMap
generateUserProfilesNoSelf(machine, peers, baseDomain) ==
  {[ID |-> p.User.ID,
    LoginName |-> p.User.Name,
    DisplayName |-> IF baseDomain # "" THEN p.User.Name \o "@" \o baseDomain
                    ELSE p.User.Name] : p \in peers}

\* generateUserProfiles
generateUserProfiles(machine, peers, baseDomain) ==
  LET names == {machine.User.Name} \cup {p.User.Name : p \in peers}
      \* userMap[peer.User.Name] = peer.User overwrites the machine's own entry
      userMap == [n \in names |->
                    IF \E p \in peers : p.User.Name = n
                    THEN (CHOOSE p \in peers : p.User.Name = n).User
                    ELSE machine.User]
  IN {[ID |-> userMap[n].ID,
       LoginName |-> userMap[n].Name,
       DisplayName |-> IF baseDomain # "" THEN userMap[n].Name \o "@" \o baseDomain
                       ELSE userMap[n].Name] : n \in names}

\* faulty variant: a route for the user of every registered machine
MagicDNSConfigAllRoutes(base, baseDomain, machine, peers) ==
  LET keys == {DottedName(Machine(n).User.Name, baseDomain) : n \in Nodes}
  IN [Proxied |-> base.Proxied,
      Domains |-> Append(base.Domains, DottedName(machine.User.Name, baseDomain)),
      Routes |-> [k \in (DOMAIN base.Routes) \cup keys |->
                    IF k \in keys THEN <<>> ELSE base.Routes[k]],
      Resolvers |-> base.Resolvers]

\* generateDNSConfig 224-247: the clone with the MagicDNS domain and routes
MagicDNSConfig(base, baseDomain, machine, peers) ==
  LET userSet == {machine.User} \cup {p.User : p \in peers}
      keys == {DottedName(u.Name, baseDomain) : u \in userSet}
  IN [Proxied |-> base.Proxied,
      Domains |-> Append(base.Domains, DottedName(machine.User.Name, baseDomain)),
      Routes |-> [k \in (DOMAIN base.Routes) \cup keys |->
                    IF k \in keys THEN <<>> ELSE base.Routes[k]],
      Resolvers |-> base.Resolvers]

\* url.Values.Encode: keys sorted, values escaped
EncodeAttrs(machine) ==
  (IF Len(machine.IPAddresses) > 0
   THEN "device_ip=" \o QueryEscape(machine.IPAddresses[1]) \o "&"
   ELSE "")
  \o "device_model=" \o QueryEscape(machine.OS)
  \o "&device_name=" \o QueryEscape(machine.Hostname)

\* addNextDNSMetadata, one resolver
TagAddr(addr, machine) ==
  IF HasPrefix(addr, nextDNSDoHPrefix) THEN addr \o "?" \o EncodeAttrs(machine) ELSE addr

\* addNextDNSMetadata over a resolver list nobody else holds
addNextDNSMetadata(resolvers, machine) ==
  [i \in 1..Len(resolvers) |-> TagAddr(resolvers[i], machine)]

\* ------------------------------------------------ marshalMapResponse, pure parts
RECURSIVE SortedSeq(_)
SortedSeq(S) ==
  IF S = {} THEN <<>>
  ELSE LET x == CHOOSE y \in S : \A z \in S : y <= z
       IN <<x>> \o SortedSeq(S \ {x})

\* A *tailcfg.DNSConfig held by a build: nil, the Mapper's template itself, or a
\* config of the build's own.  A nil *tailcfg.Node is <<>>.
EmptyCfg == [Proxied |-> FALSE, Domains |-> <<>>, Routes |-> <<>>, Resolvers |-> <<>>]
NilPtr == [ref |-> "nil", cfg |-> EmptyCfg]
BasePtr == [ref |-> "base", cfg |-> EmptyCfg]
OwnPtr(c) == [ref |-> "own", cfg |-> c]

\* what the pointer leads to when it is followed: <<>> for nil, else <<config>>
Deref(ptr, template) ==
  IF ptr.ref = "nil" THEN <<>>
  ELSE IF ptr.ref = "base" THEN <<template>> ELSE <<ptr.cfg>>

\* faulty variant: the flag left at its zero value
KeepAliveResponseFlagOff ==
  [KeepAlive |-> FALSE, Node |-> <<>>, Peers |-> {}, DNSConfig |-> NilPtr, Domain |-> "",
   CollectServices |-> "", PacketFilter |-> {}, UserProfiles |-> {}]

\* the tailcfg.MapResponse of CreateKeepAliveResponse: every other field is zero
KeepAliveResponse ==
  [KeepAlive |-> TRUE, Node |-> <<>>, Peers |-> {}, DNSConfig |-> NilPtr, Domain |-> "",
   CollectServices |-> "", PacketFilter |-> {}, UserProfiles |-> {}]

\* json.Marshal of a response whose DNSConfig pointer has been followed: an
\* encoding whose length grows with the peers, profiles, rules and domains
JsonMarshal(resp) ==
  IF resp.KeepAlive THEN <<123, 1, 125>>
  ELSE <<123, 0, resp.Node[1].ID>>
       \o SortedSeq({p.ID : p \in resp.Peers})
       \o SortedSeq({u.ID : u \in resp.UserProfiles})
       \o [i \in 1..Cardinality(resp.PacketFilter) |-> 70]
       \o [i \in 1..Len(resp.DNSConfig[1].Domains) |-> 68]
       \o <<125>>

\* zstd.Encoder.EncodeAll(in, nil): magic number, frame header, one raw block
EncodeAll(in) ==
  IF in = <<>> THEN <<>> ELSE <<40, 181, 47, 253, Len(in) % 256>> \o in

\* key.MachinePrivate.SealTo: a 24 byte nonce, the box, a 16 byte authenticator
\* (the bytes stand in for random and encrypted ones; their number is SealTo's)
SealTo(msg) ==
  [i \in 1..24 |-> 0] \o [i \in 1..Len(msg) |-> (msg[i] + 1) % 256] \o [i \in 1..16 |-> 255]

\* faulty variant: highest byte first
PutUint32BigEndian(n) ==
  <<(n \div 16777216) % 256, (n \div 65536) % 256, (n \div 256) % 256, n % 256>>

\* binary.LittleEndian.PutUint32(data, uint32(n)): the low four bytes of n, the
\* lowest first (the last % 256 is the truncation to 32 bits)
PutUint32(n) ==
  <<n % 256, (n \div 256) % 256, (n \div 65536) % 256, (n \div 16777216) % 256>>

\* marshalMapResponse 374-386, given the json body and, when compressing, zstdEncode's output
RespBody(noise, compression, jsonBody, zstdOut) ==
  IF compression = ZstdCompression
  THEN IF ~noise THEN SealTo(zstdOut) ELSE zstdOut
  ELSE IF ~noise THEN SealTo(jsonBody) ELSE jsonBody

\* marshalMapResponse 388-392
Frame(respBody) == PutUint32(Len(respBody)) \o respBody

\* ------------------------------------------------ the encoder pool
Encoder(i) == [type |-> "zstd.Encoder", id |-> i]
Foreign == [type |-> "other", id |-> 0]

\* faulty variant: the entry handed out stays in the pool
PoolGetKeep(p, x) == p

\* sync.Pool.Get taking x out of the pool (x is not in it when New made it)
PoolGet(p, x) == p \ {x}

\* sync.Pool.Put
PoolPut(p, x) == p \cup {x}

\* ------------------------------------------------ the DNS templates
ResolverLists == {<<"1.1.1.1", "https://dns.nextdns.io/abc123">>, <<"8.8.8.8">>}
Templates ==
  {[Proxied |-> p, Domains |-> <<"corp.internal">>, Routes |-> rt, Resolvers |-> rs] :
     p \in BOOLEAN, rt \in {[k \in {"corp.internal"} |-> <<"10.0.0.53">>]}, rs \in ResolverLists}
  \cup
  {[Proxied |-> TRUE, Domains |-> <<>>, Routes |-> rt, Resolvers |-> rs] :
     rt \in {[k \in {"alice.example.com"} |-> <<"10.0.0.53">>]},
     rs \in {<<"https://dns.nextdns.io/abc123">>}}

\* ------------------------------------------------ state
VARIABLES
  isNoise,      \* Mapper.isNoise
  baseDomain,   \* Mapper.baseDomain
  dnsCfg,       \* what Mapper.dnsCfg points to
  dnsCfg0,      \* its value when NewMapper returned
  pool,         \* zstdEncoderPool
  pc,           \* each worker's position
  loc,          \* each worker's locals
  calls,        \* calls made so far
  ret           \* what the call that has just finished returned (its caller
                \* takes it: the next step clears it)

vars == <<isNoise, baseDomain, dnsCfg, dnsCfg0, pool, pc, loc, calls, ret>>
cfgVars == <<isNoise, baseDomain, dnsCfg0>>

IdleLoc ==
  [op |-> "none", machine |-> 0, compress |-> "", steps |-> <<>>,
   node |-> <<>>, candidates |-> {}, rules |-> {}, peers |-> {}, profiles |-> {},
   nodePeers |-> {}, dns |-> NilPtr, idx |-> 0, addr |-> "", resp |-> <<>>,
   sent |-> <<>>, jsonErr |-> FALSE, jsonBody |-> <<>>, enc |-> <<>>, respBody |-> <<>>]

NoRet == [out |-> "none", w |-> 0, err |-> "", data |-> <<>>, l |-> IdleLoc]

Init ==
  /\ isNoise \in BOOLEAN
  /\ baseDomain \in {"", "example.com"}
  /\ dnsCfg \in Templates
  /\ dnsCfg0 = dnsCfg
  \* a sync.Pool holds values of any type and zstdEncode checks what Get hands
  \* out: the pool starts empty or with one entry that is no encoder
  /\ pool \in {{}, {Foreign}}
  /\ pc = [w \in Workers |-> IF w = 1 THEN "idle" ELSE "off"]
  /\ loc = [w \in Workers |-> IdleLoc]
  /\ calls = 0
  /\ ret = NoRet

\* ------------------------------------------------ steps
Machines(ids) == {Machine(p) : p \in ids}

\* the call returns to its caller: (data, err), or a panic unwinding the handler
Return(w, out, err, data, l) ==
  /\ ret' = [out |-> out, w |-> w, err |-> err, data |-> data, l |-> l]
  /\ pc' = [pc EXCEPT ![w] = "idle"]
  /\ loc' = [loc EXCEPT ![w] = IdleLoc]

Goto(w, p, l) ==
  /\ pc' = [pc EXCEPT ![w] = p]
  /\ loc' = [loc EXCEPT ![w] = l]
  /\ ret' = NoRet

Did(l, step) == [l EXCEPT !.steps = Append(@, step)]

\* faulty variant: the error of UnmarshalText is dropped
ParseKeyIgnoringError(w, l) ==
  IF isNoise THEN Goto(w, "marshal", l) ELSE Goto(w, "marshal", Did(l, "UnmarshalText"))

\* CreateMapResponse / CreateKeepAliveResponse 291-306, 317-336: in legacy mode
\* parse the machine key, then go on to marshalMapResponse
ParseKeyThenMarshal(w, l) ==
  IF isNoise THEN Goto(w, "marshal", l)
  ELSE IF UnmarshalTextOK(MachinePublicKeyEnsurePrefix(Machine(l.machine).MachineKey))
       THEN Goto(w, "marshal", Did(l, "UnmarshalText"))
       ELSE Return(w, "err", "KeyParseError", <<>>, Did(l, "UnmarshalText"))

\* fullMapResponse 133-185 once the DNS config is there, back in CreateMapResponse
Assemble(w, l, dnsPtr) ==
  LET resp == [KeepAlive |-> FALSE,
               Node |-> l.node,
               Peers |-> l.nodePeers,
               DNSConfig |-> dnsPtr,
               Domain |-> baseDomain,
               CollectServices |-> "false",
               PacketFilter |-> l.rules,
               UserProfiles |-> l.profiles]
  IN ParseKeyThenMarshal(w, [l EXCEPT !.dns = dnsPtr, !.resp = <<resp>>])

\* the first resolver at or after index from that has the NextDNS prefix, else 0
NextTagIdx(resolvers, from) ==
  LET hits == {i \in from..Len(resolvers) : HasPrefix(resolvers[i], nextDNSDoHPrefix)}
  IN IF hits = {} THEN 0 ELSE CHOOSE i \in hits : \A j \in hits : i <= j

\* CreateMapResponse 286, fullMapResponse 83-91: db.TailNode
CreateMapResponse(w) ==
  /\ pc[w] = "idle"
  /\ calls < MaxCalls
  /\ calls' = calls + 1
  /\ \E m \in Nodes, compress \in {ZstdCompression, ""}, ok \in BOOLEAN :
       LET l == Did([IdleLoc EXCEPT !.op = "map", !.machine = m, !.compress = compress],
                    "TailNode")
       IN IF ok THEN Goto(w, "ListPeers", [l EXCEPT !.node = <<TailNode(m)>>])
          ELSE Return(w, "err", "NodeConversionError", <<>>, l)
  /\ UNCHANGED <<cfgVars, dnsCfg, pool>>

\* fullMapResponse 93-101: db.ListPeers
ListPeersStep(w) ==
  /\ pc[w] = "ListPeers"
  /\ \E ok \in BOOLEAN :
       LET l == Did(loc[w], "ListPeers")
       IN IF ok THEN Goto(w, "GenerateFilterRules",
                          [l EXCEPT !.candidates = ListPeers(l.machine)])
          ELSE Return(w, "err", "PeerFetchError", <<>>, l)
  /\ UNCHANGED <<cfgVars, dnsCfg, pool, calls>>

\* fullMapResponse 103-112: policy.GenerateFilterRules, the ACL filter, the profiles
GenerateFilterRulesStep(w) ==
  /\ pc[w] = "GenerateFilterRules"
  /\ \E ok \in BOOLEAN, rules \in RuleSets :
       LET l == Did(loc[w], "GenerateFilterRules")
           peers == FilteredPeers(l.machine, l.candidates, rules)
       IN IF ok
          THEN Goto(w, "TailNodes",
                    [l EXCEPT !.rules = rules,
                              !.peers = peers,
                              !.profiles = generateUserProfiles(
                                 Machine(l.machine), Machines(peers), baseDomain)])
          ELSE Return(w, "err", "ACLRuleGenerationError", <<>>, l)
  /\ UNCHANGED <<cfgVars, dnsCfg, pool, calls>>

\* fullMapResponse 115-123: db.TailNodes
TailNodesStep(w) ==
  /\ pc[w] = "TailNodes"
  /\ \E ok \in BOOLEAN :
       LET l == Did(loc[w], "TailNodes")
       IN IF ok THEN Goto(w, "generateDNSConfig", [l EXCEPT !.nodePeers = TailNodes(l.peers)])
          ELSE Return(w, "err", "PeerConversionError", <<>>, l)
  /\ UNCHANGED <<cfgVars, dnsCfg, pool, calls>>

\* generateDNSConfig 224-252.  With MagicDNS the build tags the resolvers of its
\* clone; without it dnsConfig is the template and the loop of addNextDNSMetadata
\* reads and writes the template's resolvers, one access at a time.
generateDNSConfig(w) ==
  /\ pc[w] = "generateDNSConfig"
  /\ LET l == Did(loc[w], "generateDNSConfig")
     IN IF dnsCfg.Proxied
        THEN LET c == MagicDNSConfig(dnsCfg, baseDomain, Machine(l.machine), Machines(l.peers))
             IN Assemble(w, l, OwnPtr([c EXCEPT !.Resolvers =
                                         addNextDNSMetadata(@, Machine(l.machine))]))
        ELSE LET i == NextTagIdx(dnsCfg.Resolvers, 1)
             IN IF i = 0 THEN Assemble(w, l, BasePtr)
                ELSE Goto(w, "tagWrite",
                          [l EXCEPT !.dns = BasePtr, !.idx = i, !.addr = dnsCfg.Resolvers[i]])
  /\ UNCHANGED <<cfgVars, dnsCfg, pool, calls>>

\* addNextDNSMetadata 276 on the template: resolver.Addr = the address read, tagged
TagWrite(w) ==
  /\ pc[w] = "tagWrite"
  /\ LET l == Did(loc[w], "addNextDNSMetadata")
         i == NextTagIdx(dnsCfg.Resolvers, l.idx + 1)
     IN /\ dnsCfg' = [dnsCfg EXCEPT !.Resolvers[l.idx] = TagAddr(l.addr, Machine(l.machine))]
        /\ IF i = 0 THEN Assemble(w, [l EXCEPT !.idx = 0, !.addr = ""], BasePtr)
           ELSE Goto(w, "tagWrite", [l EXCEPT !.idx = i, !.addr = dnsCfg.Resolvers[i]])
  /\ UNCHANGED <<cfgVars, pool, calls>>

\* CreateKeepAliveResponse 313-336
CreateKeepAliveResponse(w) ==
  /\ pc[w] = "idle"
  /\ calls < MaxCalls
  /\ calls' = calls + 1
  /\ \E m \in Nodes, compress \in {ZstdCompression, ""} :
       ParseKeyThenMarshal(w, [IdleLoc EXCEPT !.op = "keepalive", !.machine = m,
                                              !.compress = compress,
                                              !.resp = <<KeepAliveResponse>>])
  /\ UNCHANGED <<cfgVars, dnsCfg, pool>>

\* smallzstd.NewEncoder via zstdEncoderPool.New: an encoder nobody holds yet
NewEncoder ==
  LET used == {x.id : x \in pool} \cup {loc[w].enc[1].id : w \in {v \in Workers : loc[v].enc # <<>>}}
  IN Encoder(CHOOSE i \in 1..(Cardinality(used) + 1) : i \notin used)

\* marshalMapResponse 388-392 and the return to the caller
Emit(w, l, respBody) ==
  Return(w, "ok", "", Frame(respBody), [l EXCEPT !.respBody = respBody])

\* marshalMapResponse 366-372 and, when compressing, zstdEncode 396-399: json.Marshal
\* follows the response's DNSConfig pointer; its error is logged and nothing else.
\* zstdEncoderPool.Get hands out an entry of the pool or, finding none, a new encoder.
MarshalStep(w) ==
  /\ pc[w] = "marshal"
  /\ \E ok \in BOOLEAN :
       LET l0 == Did(loc[w], "json.Marshal")
           sent == [l0.resp[1] EXCEPT !.DNSConfig = Deref(@, dnsCfg)]
           l == [l0 EXCEPT !.sent = <<sent>>,
                           !.jsonErr = ~ok,
                           !.jsonBody = IF ok THEN JsonMarshal(sent) ELSE <<>>]
       IN IF l.compress = ZstdCompression
          THEN \E x \in pool \cup {NewEncoder} :
                 /\ pool' = PoolGet(pool, x)
                 /\ IF x.type = "zstd.Encoder"
                    THEN Goto(w, "zstdEncode", [l EXCEPT !.enc = <<x>>])
                    ELSE Return(w, "panic", "invalid type in sync pool", <<>>, l)
          ELSE /\ Emit(w, l, RespBody(isNoise, l.compress, l.jsonBody, <<>>))
               /\ UNCHANGED pool
  /\ UNCHANGED <<cfgVars, dnsCfg, calls>>

\* zstdEncode 400-404: EncodeAll, Close, Put; then marshalMapResponse 377-392
ZstdEncodeStep(w) ==
  /\ pc[w] = "zstdEncode"
  /\ LET l == loc[w]
         out == EncodeAll(l.jsonBody)
     IN /\ pool' = PoolPut(pool, l.enc[1])
        /\ Emit(w, l, RespBody(isNoise, l.compress, l.jsonBody, out))
  /\ UNCHANGED <<cfgVars, dnsCfg, calls>>

\* the runtime empties a sync.Pool at a garbage collection
PoolGC ==
  /\ pool # {}
  /\ pool' = {}
  /\ ret' = NoRet
  /\ UNCHANGED <<cfgVars, dnsCfg, pc, loc, calls>>

Step(w) ==
  \/ CreateMapResponse(w)
  \/ ListPeersStep(w)
  \/ GenerateFilterRulesStep(w)
  \/ TailNodesStep(w)
  \/ generateDNSConfig(w)
  \/ TagWrite(w)
  \/ CreateKeepAliveResponse(w)
  \/ MarshalStep(w)
  \/ ZstdEncodeStep(w)

Next == (\E w \in Workers : Step(w)) \/ PoolGC

\* one worker at a time: every configuration, every input
Spec == Init /\ [][Next]_vars

\* every worker at once on one Mapper: noise mode, MagicDNS off, a NextDNS resolver
InitConc ==
  /\ isNoise = TRUE
  /\ baseDomain = "example.com"
  /\ dnsCfg \in {t \in Templates : ~t.Proxied /\ NextTagIdx(t.Resolvers, 1) # 0}
  /\ dnsCfg0 = dnsCfg
  /\ pool \in {{}, {Foreign}}
  /\ pc = [w \in Workers |-> "idle"]
  /\ loc = [w \in Workers |-> IdleLoc]
  /\ calls = 0
  /\ ret = NoRet

SpecConc == InitConc /\ [][Next]_vars

\* the builds that compress, alone: keepalive calls of every worker at once
InitPool ==
  /\ isNoise \in BOOLEAN
  /\ baseDomain = "example.com"
  /\ dnsCfg \in {t \in Templates : t.Proxied /\ NextTagIdx(t.Resolvers, 1) = 0}
  /\ dnsCfg0 = dnsCfg
  /\ pool \in {{}, {Foreign}}
  /\ pc = [w \in Workers |-> "idle"]
  /\ loc = [w \in Workers |-> IdleLoc]
  /\ calls = 0
  /\ ret = NoRet

NextPool ==
  \/ \E w \in Workers : CreateKeepAliveResponse(w) \/ MarshalStep(w) \/ ZstdEncodeStep(w)
  \/ PoolGC

SpecPool == InitPool /\ [][NextPool]_vars

\* ------------------------------------------------ properties
\* the builds in the state: each worker's, and the one that has just returned
Builds == {loc[w] : w \in Workers} \cup {ret.l}

\* the full responses built so far by fullMapResponse
FullBuilt == {l \in Builds : l.op = "map" /\ l.resp # <<>>}

\* the peers the ACL lets the machine see, from the interfaces of the collaborators
VisiblePeers(m, rules) ==
  IF rules = {} THEN ListPeers(m) ELSE {p \in ListPeers(m) : Permitted(rules, m, p)}

UserNamesOf(m, peers) == {Machine(m).User.Name} \cup {Machine(p).User.Name : p \in peers}

\* C1: in every full response the user profiles are exactly the users of the
\* requesting node and of the peers the ACL filter kept: no profile of a user seen
\* only on removed peers, none missing, one profile per login name.
C1_ProfilesAreVisibleUsers ==
  \A l \in FullBuilt :
    LET profiles == l.resp[1].UserProfiles
        names == UserNamesOf(l.machine, VisiblePeers(l.machine, l.resp[1].PacketFilter))
    IN /\ {u.LoginName : u \in profiles} = names
       /\ \A u \in profiles : u.ID = UserIDs[u.LoginName]
       /\ \A u1, u2 \in profiles : u1.LoginName = u2.LoginName => u1 = u2

\* a response returned although the filter removed a peer whose user nobody kept has
C1_Witness ==
  /\ ret.out = "ok"
  /\ ret.l.op = "map"
  /\ ret.l.peers # {}
  /\ \E p \in ret.l.candidates \ ret.l.peers :
       Machine(p).User.Name \notin {u.LoginName : u \in ret.l.sent[1].UserProfiles}

\* C2: with rules, every emitted peer is one the ACL filter permits for the
\* requesting node; without rules the emitted peers are all the candidates; the
\* emitted peers are always among the candidates, and profiles, converted peers and
\* DNS routes all come from the same filtered set.
C2_PeersAreFiltered ==
  \A l \in FullBuilt :
    LET r == l.resp[1]
        emitted == {p.ID : p \in r.Peers}
    IN /\ r.PacketFilter # {} => \A p \in emitted : Permitted(r.PacketFilter, l.machine, p)
       /\ r.PacketFilter = {} => emitted = ListPeers(l.machine)
       /\ emitted \subseteq ListPeers(l.machine)
       /\ emitted = l.peers
       /\ {u.LoginName : u \in r.UserProfiles} = UserNamesOf(l.machine, emitted)
       /\ r.DNSConfig.ref = "own" =>
            DOMAIN r.DNSConfig.cfg.Routes =
              (DOMAIN dnsCfg0.Routes)
                \cup {DottedName(n, baseDomain) : n \in UserNamesOf(l.machine, emitted)}

C2_Witness ==
  /\ ret.out = "ok"
  /\ ret.l.op = "map"
  /\ ret.l.rules # {}
  /\ ret.l.peers # {}
  /\ ret.l.peers # ret.l.candidates

\* C3: the DNS template keeps the value it had when the Mapper was constructed.
C3_TemplateNeverMutated == dnsCfg = dnsCfg0

\* C4: in the DNS config of every emitted full response each NextDNS resolver
\* carries device_name and device_model exactly once, device_ip at most once, with
\* the values of the requesting node.
C4_ResolversTaggedOnce ==
  (ret.out = "ok" /\ ret.l.op = "map") =>
    LET cfg == ret.l.sent[1].DNSConfig[1]
        m == Machine(ret.l.machine)
    IN \A i \in 1..Len(cfg.Resolvers) :
         LET a == cfg.Resolvers[i]
         IN HasPrefix(a, nextDNSDoHPrefix) =>
              /\ Occurrences(a, "device_name=") = 1
              /\ Occurrences(a, "device_model=") = 1
              /\ Occurrences(a, "device_ip=") <= 1
              /\ Contains(a, "device_name=" \o QueryEscape(m.Hostname))
              /\ Contains(a, "device_model=" \o QueryEscape(m.OS))

\* C5: when json.Marshal fails in marshalMapResponse the call returns an error and
\* no frame; a frame is returned only when serialization succeeded.
C5_SerializationErrorReturned ==
  /\ (ret.out # "none" /\ ret.l.jsonErr) => (ret.out = "err" /\ ret.data = <<>>)
  /\ ret.out = "ok" => ~ret.l.jsonErr

\* C6: the first four bytes of every returned frame are N, lowest byte first, the
\* frame is 4+N bytes long and the N bytes are the payload, sealed or not,
\* compressed or not.
C6_HeaderIsPayloadLength ==
  ret.out = "ok" =>
    LET d == ret.data
        l == ret.l
        payload == IF l.compress = ZstdCompression
                   THEN IF isNoise THEN EncodeAll(l.jsonBody) ELSE SealTo(EncodeAll(l.jsonBody))
                   ELSE IF isNoise THEN l.jsonBody ELSE SealTo(l.jsonBody)
    IN /\ Len(d) >= reservedResponseHeaderSize
       /\ LET n == d[1] + 256 * d[2] + 65536 * d[3] + 16777216 * d[4]
          IN /\ Len(d) = 4 + n
             /\ n = Len(payload)
             /\ SubSeq(d, 5, Len(d)) = payload

C6_Witness ==
  /\ ret.out = "ok"
  /\ ~isNoise
  /\ ret.l.compress = ZstdCompression
  /\ ret.l.op = "map"
  /\ ~ret.l.jsonErr
  /\ Len(ret.data) > 4 + 24 + 16

Range(seq) == {seq[i] : i \in 1..Len(seq)}

KeyParses(m) == UnmarshalTextOK(MachinePublicKeyEnsurePrefix(Machine(m).MachineKey))

\* C7: a failing step ends the call: it returns that step's error and no bytes, and
\* nothing after the failing step has run (no frame was serialized); the machine key
\* is parsed in legacy mode only, where an unparsable key never yields bytes.
C7_FailureIsTerminal ==
  /\ ret.out = "err" =>
       /\ ret.data = <<>>
       /\ "json.Marshal" \notin Range(ret.l.steps)
       /\ ret.l.sent = <<>> /\ ret.l.jsonBody = <<>> /\ ret.l.respBody = <<>>
       /\ ret.l.enc = <<>>
       /\ CASE ret.err = "NodeConversionError" ->
                 ret.l.op = "map" /\ ret.l.steps = <<"TailNode">>
            [] ret.err = "PeerFetchError" ->
                 ret.l.op = "map" /\ ret.l.steps = <<"TailNode", "ListPeers">>
            [] ret.err = "ACLRuleGenerationError" ->
                 /\ ret.l.op = "map"
                 /\ ret.l.steps = <<"TailNode", "ListPeers", "GenerateFilterRules">>
            [] ret.err = "PeerConversionError" ->
                 /\ ret.l.op = "map"
                 /\ ret.l.steps = <<"TailNode", "ListPeers", "GenerateFilterRules", "TailNodes">>
            [] ret.err = "KeyParseError" ->
                 /\ ~isNoise
                 /\ ~KeyParses(ret.l.machine)
                 /\ ret.l.steps[Len(ret.l.steps)] = "UnmarshalText"
            [] OTHER -> FALSE
       /\ ret.err # "KeyParseError" => ret.l.resp = <<>>
  /\ \A l \in Builds :
       /\ isNoise => "UnmarshalText" \notin Range(l.steps)
       /\ (~isNoise /\ "json.Marshal" \in Range(l.steps)) =>
            ("UnmarshalText" \in Range(l.steps) /\ KeyParses(l.machine))
  /\ (ret.out = "ok" /\ ~isNoise) => KeyParses(ret.l.machine)
  /\ ret.out = "ok" =>
       IF ret.l.op = "keepalive" THEN Range(ret.l.steps) \subseteq {"UnmarshalText", "json.Marshal"}
       ELSE {"TailNode", "ListPeers", "GenerateFilterRules", "TailNodes",
             "generateDNSConfig", "json.Marshal"} \subseteq Range(ret.l.steps)

C7_Witness ==
  /\ ret.out = "err"
  /\ ret.err = "KeyParseError"
  /\ ret.l.op = "map"
  /\ ret.l.resp # <<>>

\* in noise mode a call for a machine whose key does not parse returns a frame
C7_NoiseIgnoresKey ==
  /\ isNoise
  /\ ret.out = "ok"
  /\ ~KeyParses(ret.l.machine)

Holding == {w \in Workers : loc[w].enc # <<>>}

\* C8: an encoder taken from the pool is held by one build only, from the Get of
\* zstdEncode until the Put of the same call (it is back in the pool when the call
\* returns, never kept across calls), and a pool entry that is no encoder ends the
\* call in a panic without output.
C8_PoolDiscipline ==
  /\ \A w \in Workers :
       /\ (w \in Holding) = (pc[w] = "zstdEncode")
       /\ w \in Holding =>
            /\ loc[w].enc[1].type = "zstd.Encoder"
            /\ loc[w].enc[1] \notin pool
            /\ \A v \in Holding \ {w} : loc[v].enc # loc[w].enc
  /\ (ret.out = "ok" /\ ret.l.compress = ZstdCompression) =>
       /\ ret.l.enc # <<>>
       /\ ret.l.enc[1].type = "zstd.Encoder"
       /\ ret.l.enc[1] \in pool
       /\ \A v \in Holding : loc[v].enc # ret.l.enc
  /\ (ret.out = "ok" /\ ret.l.compress # ZstdCompression) => ret.l.enc = <<>>
  /\ ret.out = "panic" =>
       /\ ret.data = <<>>
       /\ ret.l.respBody = <<>>
       /\ ret.l.enc = <<>>
       /\ ret.l.compress = ZstdCompression

\* two builds compressing at once
C8_Witness ==
  \E w, v \in Workers : w # v /\ pc[w] = "zstdEncode" /\ pc[v] = "zstdEncode"

\* a call that found the foreign entry has panicked
C8_PanicReached == ret.out = "panic"

C9_WitnessDisabled ==
  /\ ret.out = "ok"
  /\ ret.l.op = "map"
  /\ ~dnsCfg0.Proxied
  /\ ret.l.resp[1].DNSConfig.ref = "base"

\* C10: a keepalive call runs no collaborator and no DNS step, and what it frames
\* has the keepalive flag set and nothing else; a full response has the flag off.
C10_KeepAliveSkipsBuilder ==
  /\ \A l \in Builds :
       l.op = "keepalive" =>
         /\ Range(l.steps) \subseteq {"UnmarshalText", "json.Marshal"}
         /\ l.node = <<>> /\ l.candidates = {} /\ l.rules = {} /\ l.peers = {}
         /\ l.nodePeers = {} /\ l.profiles = {} /\ l.dns.ref = "nil"
         /\ l.resp # <<>>
         /\ l.resp[1].KeepAlive
         /\ l.resp[1].DNSConfig.ref = "nil"
         /\ l.sent # <<>> =>
              /\ l.sent[1].KeepAlive
              /\ l.sent[1].Node = <<>>
              /\ l.sent[1].Peers = {}
              /\ l.sent[1].DNSConfig = <<>>
              /\ l.sent[1].PacketFilter = {}
              /\ l.sent[1].UserProfiles = {}
              /\ l.jsonErr \/ l.jsonBody = JsonMarshal(l.sent[1])
  /\ \A l \in FullBuilt : ~l.resp[1].KeepAlive
  /\ \A l \in Builds : (l.op = "map" /\ l.sent # <<>>) => ~l.sent[1].KeepAlive

C10_Witness ==
  /\ ret.out = "ok"
  /\ ret.l.op = "keepalive"
  /\ ~ret.l.jsonErr
  /\ Len(ret.data) > reservedResponseHeaderSize

====
